---- MODULE Spec2Model ----
(***************************************************************************)
(* A model of file-processing-py: csv_lib.py (parse_csv, strs_to_csv) and  *)
(* json_lib.py (parse_json, to_json).                                      *)
(*                                                                         *)
(* A Python str is a sequence of code points (integers); a Python index    *)
(* i (zero-based) reads element i + 1 of the sequence.                     *)
(***************************************************************************)
EXTENDS Integers, Sequences, FiniteSets, TLC

VARIABLES
    \* ---- csv_lib.py ----
    table,           \* the list[list[str]] handed to strs_to_csv
    cell,            \* the str handed to str_to_csv
    cell_out,        \* what str_to_csv returned for it
    csv,             \* the text handed to parse_csv
    quote_char, comma_char, new_line_char,
    i,               \* parse_csv: the loop index
    lines,           \* parse_csv: list of all rows
    current_row,     \* parse_csv: the row being parsed
    out_of_cell, cell_start_ind, cell_is_quoted, last_was_quote,
    err,             \* the exception parse_csv raised, or NoErr
    \* ---- json_lib.py ----
    py_data,         \* the value handed to to_json
    py_spaces,       \* the spaces argument of to_json
    json_in,         \* the text handed to parse_json
    tok_at,          \* the index in json_in at which the token under test starts
    tok,             \* the token under test
    result,          \* what parse_json returned or raised (or what to_json raised)
    pc               \* where the call stands

csv_vars == <<table, cell, cell_out, csv, quote_char, comma_char, new_line_char,
              i, lines, current_row, out_of_cell, cell_start_ind,
              cell_is_quoted, last_was_quote, err>>

json_vars == <<py_data, py_spaces, json_in, tok_at, tok, result>>

vars == <<csv_vars, json_vars, pc>>

\* ------------------------------------------------------------------------
\* Characters
\* ------------------------------------------------------------------------
LF == 10
DQUOTE == 34
COMMA == 44

\* Characters the inputs are drawn from that the program does not name.
Other == [a |-> 97, squote |-> 39, semi |-> 59, pipe |-> 124, z |-> 122, g |-> 103,
          ctrl |-> 1, surrogate |-> 55296, one |-> 49]

\* ------------------------------------------------------------------------
\* Bounds
\* ------------------------------------------------------------------------
MaxCsvLen == 5
MaxCellLen == 2
MaxCells == 2
MaxRows == 2
MaxNumLen == 5
MaxStrBody == 4
MaxTokens == 5
MaxStrLen == 2
MaxItems == 2

\* ------------------------------------------------------------------------
\* Python str methods, on sequences of code points
\* ------------------------------------------------------------------------
SeqsUpTo(S, n) == UNION {[1..k -> S] : k \in 0..n}

\* `c in s`
Contains(s, c) == \E k \in 1..Len(s) : s[k] = c

\* s[a:b] for 0 <= a, with b clipped to len(s)
Slice(s, a, b) ==
    LET hi == IF b > Len(s) THEN Len(s) ELSE b
    IN  IF a >= hi THEN <<>> ELSE SubSeq(s, a + 1, hi)

\* s.startswith(p, at)
StartsWithAt(s, p, at) ==
    /\ at + Len(p) <= Len(s)
    /\ \A k \in 1..Len(p) : s[at + k] = p[k]

\* s.endswith(p)
EndsWith(s, p) == Len(p) <= Len(s) /\ StartsWithAt(s, p, Len(s) - Len(p))

\* s.replace(old, new): non-overlapping occurrences, left to right
RECURSIVE StrReplace(_, _, _)
StrReplace(s, old, new) ==
    IF Len(s) = 0 THEN <<>>
    ELSE IF StartsWithAt(s, old, 0)
         THEN new \o StrReplace(Slice(s, Len(old), Len(s)), old, new)
         ELSE <<Head(s)>> \o StrReplace(Tail(s), old, new)

\* s.lstrip(chars), s.rstrip(chars), s.strip(chars)
RECURSIVE LStrip(_, _)
LStrip(s, chars) ==
    IF Len(s) > 0 /\ Head(s) \in chars THEN LStrip(Tail(s), chars) ELSE s

RECURSIVE RStrip(_, _)
RStrip(s, chars) ==
    IF Len(s) > 0 /\ s[Len(s)] \in chars
    THEN RStrip(SubSeq(s, 1, Len(s) - 1), chars) ELSE s

StrStrip(s, chars) == RStrip(LStrip(s, chars), chars)

\* sep.join(parts)
RECURSIVE Join(_, _)
Join(sep, parts) ==
    IF Len(parts) = 0 THEN <<>>
    ELSE IF Len(parts) = 1 THEN parts[1]
    ELSE parts[1] \o sep \o Join(sep, Tail(parts))

\* ------------------------------------------------------------------------
\* csv_lib.py: encoding
\* ------------------------------------------------------------------------
str_to_csv(s, q, c, n) ==
    IF Contains(s, q) \/ Contains(s, c) \/ Contains(s, n)
    THEN <<DQUOTE>> \o StrReplace(s, <<DQUOTE>>, <<DQUOTE, DQUOTE>>) \o <<DQUOTE>>
    ELSE s

strs_to_csv(t, q, c, n) ==
    LET rows == [r \in 1..Len(t) |->
                    Join(<<c>>, [k \in 1..Len(t[r]) |-> str_to_csv(t[r][k], q, c, n)])]
    IN  Join(<<n>>, rows)

\* ------------------------------------------------------------------------
\* csv_lib.py: decoding
\* ------------------------------------------------------------------------
unescape_csv_cell(s) ==
    StrReplace(StrStrip(s, {DQUOTE}), <<DQUOTE, DQUOTE>>, <<DQUOTE>>)

\* get_line_and_col(text, index), as <<line, col>>
RECURSIVE LineColFrom(_, _, _, _, _)
LineColFrom(text, index, k, line_count, last_line_index) ==
    IF k >= index THEN <<line_count, index - last_line_index>>
    ELSE IF text[k + 1] = LF
         THEN LineColFrom(text, index, k + 1, line_count + 1, k)
         ELSE LineColFrom(text, index, k + 1, line_count, last_line_index)

get_line_and_col(text, index) == LineColFrom(text, index, 0, 0, 0)

NoErr == [kind |-> "none", msg |-> "", pos |-> 0, row |-> 0, cell |-> 0,
          line |-> 0, col |-> 0]

CsvSyntaxError(msg, pos) ==
    [kind |-> "SyntaxError", msg |-> msg, pos |-> pos,
     row |-> Len(lines), cell |-> Len(current_row),
     line |-> get_line_and_col(csv, pos)[1], col |-> get_line_and_col(csv, pos)[2]]

\* line 59: whether the character ends the current cell
EndsCell_M(quoted, lwq, could_be_cell_end) == could_be_cell_end

EndsCell(quoted, lwq, could_be_cell_end) ==
    (IF quoted THEN lwq ELSE TRUE) /\ could_be_cell_end

\* lines 50-57: the character after a quote inside a quoted cell
AfterQuote(quoted, lwq, could_be_cell_end) ==
    quoted /\ lwq /\ ~could_be_cell_end

\* lines 35-42: the first character of a cell is skipped unless it ends the cell
SkipsCellStart_M(entering, could_be_cell_end) == entering

SkipsCellStart(entering, could_be_cell_end) == entering /\ ~could_be_cell_end

\* One iteration of the for loop (lines 29-81).
ParseCsvStep ==
    /\ pc = "loop"
    /\ i < Len(csv)
    /\ LET c == csv[i + 1]
           could_be_cell_end == (c = comma_char \/ c = new_line_char)
           entering == out_of_cell
           \* lines 35-39
           start1 == IF entering THEN i ELSE cell_start_ind
           lwq1 == IF entering THEN FALSE ELSE last_was_quote
           quoted1 == IF entering THEN c = quote_char ELSE cell_is_quoted
           raise(msg) ==
               /\ pc' = "error"
               /\ err' = CsvSyntaxError(msg, i)
               /\ out_of_cell' = FALSE
               /\ cell_start_ind' = start1
               /\ cell_is_quoted' = quoted1
               /\ last_was_quote' = lwq1
               /\ UNCHANGED <<i, lines, current_row>>
           go_on(lwq) ==
               /\ i' = i + 1
               /\ out_of_cell' = FALSE
               /\ cell_start_ind' = start1
               /\ cell_is_quoted' = quoted1
               /\ last_was_quote' = lwq
               /\ UNCHANGED <<pc, err, lines, current_row>>
       IN  IF SkipsCellStart(entering, could_be_cell_end)
           THEN go_on(FALSE)                                     \* line 42
           ELSE IF ~quoted1 /\ c = quote_char
           THEN raise("Unexpected quote in CSV")                 \* line 47
           ELSE IF AfterQuote(quoted1, lwq1, could_be_cell_end)
           THEN IF c = quote_char
                THEN go_on(FALSE)                                \* line 53
                ELSE raise("Expected comma, new line, or quote following another quote")
           ELSE IF EndsCell(quoted1, lwq1, could_be_cell_end)
           THEN LET raw == Slice(csv, start1, i)
                    cell_text == IF quoted1 THEN unescape_csv_cell(raw) ELSE raw
                    row == Append(current_row, cell_text)
                IN  /\ i' = i + 1
                    /\ out_of_cell' = TRUE
                    /\ last_was_quote' = FALSE
                    /\ cell_start_ind' = start1
                    /\ cell_is_quoted' = FALSE
                    /\ IF c = new_line_char
                       THEN lines' = Append(lines, row) /\ current_row' = <<>>
                       ELSE lines' = lines /\ current_row' = row
                    /\ UNCHANGED <<pc, err>>
           ELSE go_on(quoted1 /\ c = quote_char)                 \* lines 78-81
    /\ UNCHANGED <<table, cell, cell_out, csv, quote_char, comma_char, new_line_char>>
    /\ UNCHANGED json_vars

\* lines 84-95: the cells the trailing-cell code appends, or "raise"
TrailingCells_M(text, quoted, lwq, ooc, start, comma) ==
    IF quoted
    THEN [raise |-> FALSE, cells |-> <<unescape_csv_cell(Slice(text, start, Len(text)))>>]
    ELSE IF ~ooc
    THEN [raise |-> FALSE, cells |-> <<Slice(text, start, Len(text))>>]
    ELSE IF EndsWith(text, <<comma>>)
    THEN [raise |-> FALSE, cells |-> << <<>> >>]
    ELSE [raise |-> FALSE, cells |-> <<>>]

TrailingCells(text, quoted, lwq, ooc, start, comma) ==
    IF quoted
    THEN IF lwq
         THEN [raise |-> FALSE, cells |-> <<unescape_csv_cell(Slice(text, start, Len(text)))>>]
         ELSE [raise |-> TRUE, cells |-> <<>>]
    ELSE IF ~ooc
    THEN [raise |-> FALSE, cells |-> <<Slice(text, start, Len(text))>>]
    ELSE IF EndsWith(text, <<comma>>)
    THEN [raise |-> FALSE, cells |-> << <<>> >>]
    ELSE [raise |-> FALSE, cells |-> <<>>]

\* After the loop (lines 83-101).
ParseCsvTrailing ==
    /\ pc = "loop"
    /\ i = Len(csv)
    /\ LET t == TrailingCells(csv, cell_is_quoted, last_was_quote, out_of_cell,
                              cell_start_ind, comma_char)
           row == current_row \o t.cells
       IN  IF t.raise
           THEN /\ pc' = "error"
                /\ err' = [kind |-> "SyntaxError",
                           msg |-> "Unexpected end of input in CSV, expected quote",
                           pos |-> Len(csv), row |-> Len(lines), cell |-> Len(current_row),
                           line |-> 0, col |-> 0]
                /\ UNCHANGED <<lines, current_row>>
           ELSE /\ pc' = "done"
                /\ current_row' = row
                /\ lines' = IF Len(row) > 0 THEN Append(lines, row) ELSE lines
                /\ UNCHANGED err
    /\ UNCHANGED <<table, cell, cell_out, csv, quote_char, comma_char, new_line_char,
                   i, out_of_cell, cell_start_ind, cell_is_quoted, last_was_quote>>
    /\ UNCHANGED json_vars

\* The locals of parse_csv at its entry (lines 15-26).
ParseCsvEntry ==
    /\ i = 0
    /\ lines = <<>>
    /\ current_row = <<>>
    /\ out_of_cell = TRUE
    /\ cell_start_ind = 0
    /\ cell_is_quoted = FALSE
    /\ last_was_quote = FALSE
    /\ err = NoErr

\* strs_to_csv(table) is computed and handed to parse_csv.
StrsToCsv ==
    /\ pc = "encode"
    /\ csv' = strs_to_csv(table, quote_char, comma_char, new_line_char)
    /\ pc' = "loop"
    /\ UNCHANGED <<table, cell, cell_out, quote_char, comma_char, new_line_char,
                   i, lines, current_row, out_of_cell, cell_start_ind,
                   cell_is_quoted, last_was_quote, err>>
    /\ UNCHANGED json_vars

\* str_to_csv(cell) is computed.
StrToCsv ==
    /\ pc = "cell"
    /\ cell_out' = str_to_csv(cell, quote_char, comma_char, new_line_char)
    /\ pc' = "cell_done"
    /\ UNCHANGED <<table, cell, csv, quote_char, comma_char, new_line_char,
                   i, lines, current_row, out_of_cell, cell_start_ind,
                   cell_is_quoted, last_was_quote, err>>
    /\ UNCHANGED json_vars

\* ------------------------------------------------------------------------
\* json_lib.py: characters
\* ------------------------------------------------------------------------
BS == 8
TAB == 9
FF == 12
CR == 13
SPACE == 32
PLUS == 43
MINUS == 45
DOT == 46
SLASH == 47
DIGIT_0 == 48
DIGIT_9 == 57
COLON == 58
UPPER_A == 65
UPPER_E == 69
UPPER_Z == 90
LBRACKET == 91
BACKSLASH == 92
RBRACKET == 93
LOWER_A == 97
LOWER_B == 98
LOWER_E == 101
LOWER_F == 102
LOWER_N == 110
LOWER_R == 114
LOWER_T == 116
LOWER_U == 117
LBRACE == 123
RBRACE == 125

JSON_WHITESPACE == {SPACE, TAB, CR, LF}
JSON_NUM_START_CHARS == (DIGIT_0..DIGIT_9) \cup {MINUS}
JSON_NUM_CHARS == (DIGIT_0..DIGIT_9) \cup {DOT, LOWER_E, UPPER_E, PLUS, MINUS}

WORD_NULL == <<LOWER_N, LOWER_U, 108, 108>>
WORD_TRUE == <<LOWER_T, LOWER_R, LOWER_U, LOWER_E>>
WORD_FALSE == <<LOWER_F, LOWER_A, 108, 115, LOWER_E>>

IsDigit(c) == c >= DIGIT_0 /\ c <= DIGIT_9

\* c.lower(), on the characters of the model (ASCII letters change, the
\* others are left alone)
Lower(c) == IF c >= UPPER_A /\ c <= UPPER_Z THEN c + 32 ELSE c

LowerStr(s) == [k \in 1..Len(s) |-> Lower(s[k])]

\* s.index(c) for a c that occurs in s
IndexOf(s, c) == CHOOSE k \in 0..(Len(s) - 1) :
                    s[k + 1] = c /\ \A j \in 1..k : s[j] # c

\* ------------------------------------------------------------------------
\* json_lib.py: Python values
\* ------------------------------------------------------------------------
PyNone == [t |-> "None"]
PyBool(b) == [t |-> "bool", b |-> b]
PyInt(n) == [t |-> "int", n |-> n]
PyStr(s) == [t |-> "str", s |-> s]
PyList(items) == [t |-> "list", items |-> items]
\* a dict is the sequence of its <<key, value>> items, in insertion order
PyDict(items) == [t |-> "dict", items |-> items]

\* A float is kept as the decimal m * 10^e with m not a multiple of 10
\* (0 is m = 0, e = 0), or as an infinity.
RECURSIVE Normalize(_, _)
Normalize(m, e) ==
    IF m = 0 THEN [t |-> "float", m |-> 0, e |-> 0, inf |-> FALSE]
    ELSE IF m % 10 = 0 THEN Normalize(m \div 10, e + 1)
    ELSE [t |-> "float", m |-> m, e |-> e, inf |-> FALSE]

PyFloat(m, e) == Normalize(m, e)
PyInf(neg) == [t |-> "float", m |-> IF neg THEN -1 ELSE 1, e |-> 0, inf |-> TRUE]

\* obj[key] = val
RECURSIVE DictSet(_, _, _)
DictSet(items, key, val) ==
    IF Len(items) = 0 THEN << <<key, val>> >>
    ELSE IF items[1][1] = key THEN << <<key, val>> >> \o Tail(items)
    ELSE <<items[1]>> \o DictSet(Tail(items), key, val)

\* ------------------------------------------------------------------------
\* json_lib.py: what a call returns or raises
\* ------------------------------------------------------------------------
Ok(v, at) == [exc |-> "none", val |-> v, i |-> at, msg |-> "", pos |-> 0,
              line |-> 0, col |-> 0]

Raise(kind, msg, at) == [exc |-> kind, val |-> PyNone, i |-> 0, msg |-> msg, pos |-> at,
                         line |-> 0, col |-> 0]

\* raise SyntaxError(format_err_str(msg, text, index))
format_err_str(msg, text, index) ==
    [exc |-> "SyntaxError", val |-> PyNone, i |-> 0, msg |-> msg, pos |-> index,
     line |-> LineColFrom(text, index, 0, 0, 0)[1],
     col |-> LineColFrom(text, index, 0, 0, 0)[2]]

EndOfFile(json) == Raise("SyntaxError", "Unexpected end of file", Len(json))

\* except IndexError: raise SyntaxError(...)
ExceptIndexError(r, json) == IF r.exc = "IndexError" THEN EndOfFile(json) ELSE r

RECURSIVE skip_whitespace(_, _)
skip_whitespace(json, at) ==
    IF at < Len(json) /\ json[at + 1] \in JSON_WHITESPACE
    THEN skip_whitespace(json, at + 1) ELSE at

\* ------------------------------------------------------------------------
\* json_lib.py: parse_json_str
\* ------------------------------------------------------------------------
HexValue(c) == IF IsDigit(c) THEN c - DIGIT_0 ELSE c - LOWER_A + 10

\* int(s, 16)
RECURSIVE IntOfHex(_)
IntOfHex(s) ==
    IF Len(s) = 0 THEN 0
    ELSE 16 * IntOfHex(SubSeq(s, 1, Len(s) - 1)) + HexValue(s[Len(s)])

\* lines 163-171: what an escape letter stands for (<<>>: nothing appended)
Unescaped(c) ==
    CASE c = LOWER_B -> <<BS>>
      [] c = LOWER_F -> <<FF>>
      [] c = LOWER_N -> <<LF>>
      [] c = LOWER_T -> <<TAB>>
      [] c = LOWER_R -> <<CR>>
      [] c = SLASH -> <<SLASH>>
      [] c = DQUOTE -> <<DQUOTE>>
      [] c = BACKSLASH -> <<BACKSLASH>>
      [] OTHER -> <<>>

EscapeLetters == {LOWER_B, LOWER_F, LOWER_N, LOWER_T, LOWER_R, SLASH, DQUOTE,
                  BACKSLASH, LOWER_U}

\* line 182: %x20-21 / %x23-5B / %x5D-10FFFF
PlainStrChar(c) ==
    \/ c >= 32 /\ c <= 33
    \/ c >= 35 /\ c <= 91
    \/ c >= 93 /\ c <= 1114111

\* The while loop of parse_json_str (lines 142-184); in_hex says whether
\* hex_char_str is not None.  i1 is i after line 145, which the raises report.
RECURSIVE StrLoop(_, _, _, _, _, _)
StrLoop(json, at, last_was_esc, char_list, in_hex, hex_char_str) ==
    IF at >= Len(json) THEN Raise("IndexError", "string index out of range", at)
    ELSE
    LET c == json[at + 1]
        i1 == at + 1
    IN  IF in_hex
        THEN LET l == Lower(c)
             IN  IF IsDigit(l) \/ (l >= LOWER_A /\ l <= LOWER_F)
                 THEN LET h == Append(hex_char_str, l)
                      IN  IF Len(h) = 4
                          THEN StrLoop(json, i1, last_was_esc,
                                       Append(char_list, IntOfHex(h)), FALSE, <<>>)
                          ELSE StrLoop(json, i1, last_was_esc, char_list, TRUE, h)
                 ELSE format_err_str("Unexpected character. Expected a hexadecimal character",
                                     json, i1)
        ELSE IF c = DQUOTE /\ ~last_was_esc
        THEN Ok(PyStr(char_list), i1)
        ELSE IF last_was_esc
        THEN IF c \in EscapeLetters
             THEN StrLoop(json, i1, FALSE, char_list \o Unescaped(c), c = LOWER_U, <<>>)
             ELSE format_err_str("Unexpected character. Expected an escape letter",
                                 json, i1)
        ELSE IF c = BACKSLASH
        THEN StrLoop(json, i1, TRUE, char_list, FALSE, <<>>)
        ELSE IF ~PlainStrChar(c)
        THEN format_err_str("Unexpected character. Expected a character in the string ranges",
                            json, i1)
        ELSE StrLoop(json, i1, FALSE, Append(char_list, c), FALSE, <<>>)

parse_json_str(json, at) ==
    IF at >= Len(json) THEN Raise("IndexError", "string index out of range", at)
    ELSE IF json[at + 1] # DQUOTE
    THEN format_err_str("Unexpected character. Expected '\"'", json, at)
    ELSE ExceptIndexError(StrLoop(json, at + 1, FALSE, <<>>, FALSE, <<>>), json)

\* ------------------------------------------------------------------------
\* json_lib.py: parse_json_number
\* ------------------------------------------------------------------------
\* int(s) for a string of digits
RECURSIVE IntOfDigits(_)
IntOfDigits(s) ==
    IF Len(s) = 0 THEN 0
    ELSE 10 * IntOfDigits(SubSeq(s, 1, Len(s) - 1)) + (s[Len(s)] - DIGIT_0)

RECURSIVE NumDigits(_)
NumDigits(n) == IF n < 10 THEN 1 ELSE 1 + NumDigits(n \div 10)

\* float(num) for a num that passed the checks of parse_json_number: the
\* decimal the text denotes, an infinity past the range of a double, zero
\* below it.
FloatOf(num) ==
    LET neg == Len(num) > 0 /\ num[1] = MINUS
        body == IF neg THEN Tail(num) ELSE num
        low == LowerStr(body)
        e_at == IF Contains(low, LOWER_E) THEN IndexOf(low, LOWER_E) ELSE Len(body)
        mant == Slice(body, 0, e_at)
        dot_at == IF Contains(mant, DOT) THEN IndexOf(mant, DOT) ELSE Len(mant)
        int_part == Slice(mant, 0, dot_at)
        frac == Slice(mant, dot_at + 1, Len(mant))
        exp_text == Slice(body, e_at + 1, Len(body))
        exp_neg == Len(exp_text) > 0 /\ exp_text[1] = MINUS
        exp_digits == IF Len(exp_text) > 0 /\ exp_text[1] \in {PLUS, MINUS}
                      THEN Tail(exp_text) ELSE exp_text
        exp == IF exp_neg THEN 0 - IntOfDigits(exp_digits) ELSE IntOfDigits(exp_digits)
        m == IntOfDigits(int_part \o frac)
        n == Normalize(m, exp - Len(frac))
        decpt == NumDigits(n.m) + n.e
    IN  IF n.m # 0 /\ decpt > 309 THEN PyInf(neg)
        ELSE IF n.m # 0 /\ decpt < -323 THEN PyFloat(0, 0)
        ELSE IF neg THEN PyFloat(0 - n.m, n.e) ELSE n

\* line 191: the index at which the run of number characters ends
RECURSIVE NumEnd(_, _)
NumEnd(json, ind) ==
    IF ind < Len(json) /\ json[ind + 1] \in JSON_NUM_CHARS
    THEN NumEnd(json, ind + 1) ELSE ind

\* line 202: a zero followed by a digit
LeadingZero_M(num) == FALSE

LeadingZero(num) == Len(num) >= 2 /\ num[1] = DIGIT_0 /\ IsDigit(num[2])

\* lines 213-221: the loop over before_e; at is the local i, which the loop
\* advances on a decimal point only
RECURSIVE BeforeELoop(_, _, _, _, _)
BeforeELoop(json, before_e, k, at, reached_dec) ==
    IF k > Len(before_e) THEN Ok(PyNone, at)
    ELSE LET c == before_e[k]
         IN  IF c = DOT
             THEN IF reached_dec
                  THEN format_err_str("Unexpected second decimal point", json, at)
                  ELSE BeforeELoop(json, before_e, k + 1, at + 1, TRUE)
             ELSE IF c < DIGIT_0 \/ c > DIGIT_9
             THEN format_err_str("Unexpected character. Expected a digit", json, at)
             ELSE BeforeELoop(json, before_e, k + 1, at, reached_dec)

\* lines 232-235: the loop over after_e
RECURSIVE AfterELoop(_, _, _, _)
AfterELoop(json, after_e, k, at) ==
    IF k > Len(after_e) THEN Ok(PyNone, at)
    ELSE IF after_e[k] < DIGIT_0 \/ after_e[k] > DIGIT_9
    THEN format_err_str("Unexpected character. Expected a digit", json, at)
    ELSE AfterELoop(json, after_e, k + 1, at + 1)

\* line 224: the value i takes when the exponent part is entered
ExponentStart(at, e_index) == e_index + 1

parse_json_number(json, i0) ==
    LET ind == NumEnd(json, i0)
        num0 == Slice(json, i0, ind)
        negative == Len(num0) > 0 /\ num0[1] = MINUS
        num == IF negative THEN Tail(num0) ELSE num0
        i1 == IF negative THEN i0 + 1 ELSE i0
        low == LowerStr(num)
        e_index == IF Contains(low, LOWER_E) THEN IndexOf(low, LOWER_E) ELSE Len(num)
        before_e == Slice(num, 0, e_index)
        loop1 == BeforeELoop(json, before_e, 1, i1, FALSE)
        i2 == ExponentStart(loop1.i, e_index)
        after0 == Slice(num, e_index + 1, Len(num))
        signed == Len(after0) > 0 /\ after0[1] \in {PLUS, MINUS}
        after_e == IF signed THEN Tail(after0) ELSE after0
        i3 == IF signed THEN i2 + 1 ELSE i2
        loop2 == AfterELoop(json, after_e, 1, i3)
        value == FloatOf(IF negative THEN <<MINUS>> \o num ELSE num)
    IN  IF Len(num0) = 0
        THEN format_err_str("Unexpected empty number string", json, i0)
        ELSE IF Len(num) > 0 /\ num[1] = DOT
        THEN format_err_str("Unexpected decimal point. Expected a digit beforehand", json, i1)
        ELSE IF LeadingZero(num)
        THEN format_err_str("Unexpected digit following a zero", json, i1 + 1)
        ELSE IF Len(before_e) > 0 /\ before_e[Len(before_e)] = DOT
        THEN format_err_str("Unexpected decimal point. Expected no decimal point or a following digit",
                            json, i1 + Len(before_e) - 1)
        ELSE IF Len(before_e) = 0
        THEN format_err_str("Unexpected end of non-exponent segment of number", json, i1)
        ELSE IF loop1.exc # "none" THEN loop1
        ELSE IF e_index # Len(num)
        THEN IF Len(after_e) = 0
             THEN format_err_str("Unexpected end of number. Expected a digit", json, i3)
             ELSE IF loop2.exc # "none" THEN loop2
             ELSE Ok(value, ind)
        ELSE Ok(value, ind)

\* ------------------------------------------------------------------------
\* json_lib.py: parse_json_null, parse_json_boolean, parse_json_obj,
\* parse_json_arr, parse_json_base, parse_json
\* ------------------------------------------------------------------------
parse_json_null(json, at) ==
    IF ~StartsWithAt(json, WORD_NULL, at)
    THEN format_err_str("Unexpected string. Expected 'null'", json, at)
    ELSE Ok(PyNone, at + 4)

parse_json_boolean(json, at) ==
    IF ~StartsWithAt(json, WORD_TRUE, at) /\ ~StartsWithAt(json, WORD_FALSE, at)
    THEN format_err_str("Unexpected string. Expected 'true' or 'false'", json, at)
    ELSE IF Slice(json, at, at + 4) = WORD_TRUE
         THEN Ok(PyBool(TRUE), at + 4)
         ELSE Ok(PyBool(FALSE), at + 5)

\* line 81: the raise after a key that no ':' follows.  Its message reads the
\* local c, which is bound only once line 87 has run.
MissingColon(json, at, c_bound) ==
    IF c_bound
    THEN format_err_str("Unexpected character. Expected ':'", json, at)
    ELSE Raise("UnboundLocalError",
               "cannot access local variable 'c' where it is not associated with a value", at)

RECURSIVE parse_json_base(_, _)
RECURSIVE ObjLoop(_, _, _, _)
RECURSIVE ArrLoop(_, _, _)

\* lines 77-94: one turn of the while loop of parse_json_obj and the turns
\* after it; c_bound says whether the local c has been assigned
ObjLoop(json, at, obj, c_bound) ==
    LET key == parse_json_str(json, at)
        i1 == skip_whitespace(json, key.i)
        i2 == skip_whitespace(json, i1 + 1)
        val == parse_json_base(json, i2)
        obj1 == DictSet(obj, key.val.s, val.val)
        i3 == skip_whitespace(json, val.i)
        c == json[i3 + 1]
    IN  IF key.exc # "none" THEN key
        ELSE IF i1 >= Len(json) THEN Raise("IndexError", "string index out of range", i1)
        ELSE IF json[i1 + 1] # COLON THEN MissingColon(json, i1, c_bound)
        ELSE IF val.exc # "none" THEN val
        ELSE IF i3 >= Len(json) THEN Raise("IndexError", "string index out of range", i3)
        ELSE IF c = RBRACE THEN Ok(PyDict(obj1), i3 + 1)
        ELSE IF c # COMMA
        THEN format_err_str("Unexpected character. Expected ',' or '}'", json, i3)
        ELSE ObjLoop(json, skip_whitespace(json, i3 + 1), obj1, TRUE)

parse_json_obj(json, at) ==
    LET i1 == skip_whitespace(json, at + 1)
    IN  IF at >= Len(json) THEN Raise("IndexError", "string index out of range", at)
        ELSE IF json[at + 1] # LBRACE
        THEN Raise("UnboundLocalError",
                   "cannot access local variable 'c' where it is not associated with a value", at)
        ELSE ExceptIndexError(
                IF i1 >= Len(json) THEN Raise("IndexError", "string index out of range", i1)
                ELSE IF json[i1 + 1] = RBRACE THEN Ok(PyDict(<<>>), i1 + 1)
                ELSE ObjLoop(json, i1, <<>>, FALSE),
                json)

\* lines 108-119
ArrLoop(json, at, arr) ==
    LET val == parse_json_base(json, at)
        arr1 == Append(arr, val.val)
        i1 == skip_whitespace(json, val.i)
        c == json[i1 + 1]
    IN  IF val.exc # "none" THEN val
        ELSE IF i1 >= Len(json) THEN Raise("IndexError", "string index out of range", i1)
        ELSE IF c = RBRACKET THEN Ok(PyList(arr1), i1 + 1)
        ELSE IF c # COMMA
        THEN format_err_str("Unexpected character. Expected ',' or ']'", json, i1)
        ELSE ArrLoop(json, skip_whitespace(json, i1 + 1), arr1)

parse_json_arr(json, at) ==
    LET i1 == skip_whitespace(json, at + 1)
    IN  IF at >= Len(json) THEN Raise("IndexError", "string index out of range", at)
        ELSE IF json[at + 1] # LBRACKET
        THEN Raise("UnboundLocalError",
                   "cannot access local variable 'c' where it is not associated with a value", at)
        ELSE ExceptIndexError(
                IF i1 >= Len(json) THEN Raise("IndexError", "string index out of range", i1)
                ELSE IF json[i1 + 1] = RBRACKET THEN Ok(PyList(<<>>), i1 + 1)
                ELSE ArrLoop(json, i1, <<>>),
                json)

parse_json_base(json, at) ==
    LET i1 == skip_whitespace(json, at)
        c == json[i1 + 1]
    IN  IF i1 >= Len(json) THEN EndOfFile(json)
        ELSE IF c = LBRACE THEN parse_json_obj(json, i1)
        ELSE IF c = LBRACKET THEN parse_json_arr(json, i1)
        ELSE IF c = DQUOTE THEN parse_json_str(json, i1)
        ELSE IF c = LOWER_N THEN parse_json_null(json, i1)
        ELSE IF c = LOWER_T \/ c = LOWER_F THEN parse_json_boolean(json, i1)
        ELSE IF c \in JSON_NUM_START_CHARS THEN parse_json_number(json, i1)
        ELSE format_err_str("Unexpected character", json, i1)

parse_json(json) ==
    LET r == parse_json_base(json, 0)
        i1 == skip_whitespace(json, r.i)
    IN  IF r.exc # "none" THEN r
        ELSE IF i1 < Len(json) THEN Raise("SyntaxError", "Expected end of input", i1)
        ELSE Ok(r.val, i1)

\* ------------------------------------------------------------------------
\* json_lib.py: to_json
\* ------------------------------------------------------------------------
increase_indent(text, spaces) == StrReplace(text, <<LF>>, <<LF>> \o spaces)

\* the decimal digits of n >= 0
RECURSIVE DigitsOf(_)
DigitsOf(n) ==
    IF n < 10 THEN <<DIGIT_0 + n>>
    ELSE Append(DigitsOf(n \div 10), DIGIT_0 + (n % 10))

\* hex(n)[2:]
RECURSIVE HexOf(_)
HexOf(n) ==
    LET d == n % 16
        ch == IF d < 10 THEN DIGIT_0 + d ELSE LOWER_A + d - 10
    IN  IF n < 16 THEN <<ch>> ELSE Append(HexOf(n \div 16), ch)

\* s.rjust(width, fill)
RECURSIVE RJust(_, _, _)
RJust(s, width, fill) == IF Len(s) >= width THEN s ELSE RJust(<<fill>> \o s, width, fill)

Zeros(n) == [k \in 1..n |-> DIGIT_0]

\* line 261: the characters written as \uXXXX
NeedsUEscape(n) == n <= 31 \/ (n >= 55296 /\ n <= 57343)

\* line 255: the first pair of replacements, of the backslash then the quote
EscapeBackslashAndQuote_M(string) ==
    StrReplace(StrReplace(string, <<DQUOTE>>, <<BACKSLASH, DQUOTE>>),
               <<BACKSLASH>>, <<BACKSLASH, BACKSLASH>>)

EscapeBackslashAndQuote(string) ==
    StrReplace(StrReplace(string, <<BACKSLASH>>, <<BACKSLASH, BACKSLASH>>),
               <<DQUOTE>>, <<BACKSLASH, DQUOTE>>)

\* lines 259-264
RECURSIVE EscapeChars(_)
EscapeChars(string) ==
    IF Len(string) = 0 THEN <<>>
    ELSE (IF NeedsUEscape(Head(string))
          THEN <<BACKSLASH, LOWER_U>> \o RJust(HexOf(Head(string)), 4, DIGIT_0)
          ELSE <<Head(string)>>) \o EscapeChars(Tail(string))

escape_str_for_json(string) ==
    LET s1 == EscapeBackslashAndQuote(string)
        s2 == StrReplace(s1, <<LF>>, <<BACKSLASH, LOWER_N>>)
        s3 == StrReplace(s2, <<CR>>, <<BACKSLASH, LOWER_R>>)
        s4 == StrReplace(s3, <<BS>>, <<BACKSLASH, LOWER_B>>)
        s5 == StrReplace(s4, <<TAB>>, <<BACKSLASH, LOWER_T>>)
        s6 == StrReplace(s5, <<FF>>, <<BACKSLASH, LOWER_F>>)
    IN  <<DQUOTE>> \o EscapeChars(s6) \o <<DQUOTE>>

\* str(data) for an int
StrOfInt(n) == IF n < 0 THEN <<MINUS>> \o DigitsOf(0 - n) ELSE DigitsOf(n)

\* str(data) for a finite float: the shortest digits that give the float
\* back, in fixed notation when the decimal point falls within -4 < decpt
\* <= 16 and in exponent notation otherwise
StrOfFloat(f) ==
    LET sign == IF f.m < 0 THEN <<MINUS>> ELSE <<>>
        digits == DigitsOf(IF f.m < 0 THEN 0 - f.m ELSE f.m)
        n == Len(digits)
        decpt == n + f.e
        exp == decpt - 1
        exp_digits == DigitsOf(IF exp < 0 THEN 0 - exp ELSE exp)
    IN  sign \o
        (IF decpt > -4 /\ decpt <= 16
         THEN IF decpt <= 0
              THEN <<DIGIT_0, DOT>> \o Zeros(0 - decpt) \o digits
              ELSE IF decpt >= n
              THEN digits \o Zeros(decpt - n) \o <<DOT, DIGIT_0>>
              ELSE SubSeq(digits, 1, decpt) \o <<DOT>> \o SubSeq(digits, decpt + 1, n)
         ELSE <<digits[1]>>
              \o (IF n > 1 THEN <<DOT>> \o SubSeq(digits, 2, n) ELSE <<>>)
              \o <<LOWER_E, IF exp < 0 THEN MINUS ELSE PLUS>>
              \o RJust(exp_digits, 2, DIGIT_0))

\* lines 281-283
NumberText(data) ==
    LET num == IF data.t = "int" THEN StrOfInt(data.n) ELSE StrOfFloat(data)
    IN  IF EndsWith(num, <<DOT, DIGIT_0>>) THEN SubSeq(num, 1, Len(num) - 2) ELSE num

NoSpaces == [t |-> "None"]

\* line 273
SpacesStr(spaces) == IF spaces.t = "int" THEN [k \in 1..spaces.n |-> SPACE] ELSE spaces.s

RECURSIVE to_json(_, _)
RECURSIVE DictJson(_, _, _, _)
RECURSIVE ListJson(_, _, _, _)

\* lines 289-302: the loop over the keys, str_arr so far in acc
DictJson(items, k, spaces, acc) ==
    IF k > Len(items) THEN Ok(PyStr(acc), 0)
    ELSE LET sep == IF k = 1 THEN <<>> ELSE <<COMMA>>
             brk == IF spaces.t = "None" THEN <<>> ELSE <<LF>> \o SpacesStr(spaces)
             gap == IF spaces.t = "None" THEN <<>> ELSE <<SPACE>>
             stringified == to_json(items[k][2], spaces)
             text == IF spaces.t = "None" THEN stringified.val.s
                     ELSE increase_indent(stringified.val.s, SpacesStr(spaces))
         IN  IF stringified.exc # "none" THEN stringified
             ELSE DictJson(items, k + 1, spaces,
                           acc \o sep \o brk \o escape_str_for_json(items[k][1])
                               \o <<COLON>> \o gap \o text)

\* lines 312-321: the loop over the values
ListJson(items, k, spaces, acc) ==
    IF k > Len(items) THEN Ok(PyStr(acc), 0)
    ELSE LET sep == IF k = 1 THEN <<>> ELSE <<COMMA>>
             brk == IF spaces.t = "None" THEN <<>> ELSE <<LF>> \o SpacesStr(spaces)
             stringified == to_json(items[k], spaces)
             text == IF spaces.t = "None" THEN stringified.val.s
                     ELSE increase_indent(stringified.val.s, SpacesStr(spaces))
         IN  IF stringified.exc # "none" THEN stringified
             ELSE ListJson(items, k + 1, spaces, acc \o sep \o brk \o text)

to_json(data, spaces) ==
    LET tail == IF spaces.t = "None" THEN <<>> ELSE <<LF>>
        d == DictJson(data.items, 1, spaces, <<LBRACE>>)
        l == ListJson(data.items, 1, spaces, <<LBRACKET>>)
    IN  CASE data.t = "None" -> Ok(PyStr(WORD_NULL), 0)
          [] data.t = "str" -> Ok(PyStr(escape_str_for_json(data.s)), 0)
          [] data.t = "bool" -> Ok(PyStr(IF data.b THEN WORD_TRUE ELSE WORD_FALSE), 0)
          [] data.t \in {"int", "float"} ->
                IF data.t = "float" /\ data.inf
                THEN Raise("TypeError", "Cannot convert the value 'inf' or 'nan' to a JSON number", 0)
                ELSE Ok(PyStr(NumberText(data)), 0)
          [] data.t = "dict" ->
                IF Len(data.items) = 0 THEN Ok(PyStr(<<LBRACE, RBRACE>>), 0)
                ELSE IF d.exc # "none" THEN d
                ELSE Ok(PyStr(d.val.s \o tail \o <<RBRACE>>), 0)
          [] data.t = "list" ->
                IF Len(data.items) = 0 THEN Ok(PyStr(<<LBRACKET, RBRACKET>>), 0)
                ELSE IF l.exc # "none" THEN l
                ELSE Ok(PyStr(l.val.s \o tail \o <<RBRACKET>>), 0)
          [] OTHER -> Raise("TypeError", "Argument 'data' must be a dict, list, int, float, str, bool, or None", 0)

\* ------------------------------------------------------------------------
\* json_lib.py: the calls
\* ------------------------------------------------------------------------
\* to_json(py_data, py_spaces) is computed; its text is handed to parse_json.
ToJson ==
    /\ pc = "to_json"
    /\ LET r == to_json(py_data, py_spaces)
       IN  IF r.exc = "none"
           THEN json_in' = r.val.s /\ pc' = "parse" /\ UNCHANGED result
           ELSE result' = r /\ pc' = "raised" /\ UNCHANGED json_in
    /\ UNCHANGED <<py_data, py_spaces, tok_at, tok>>
    /\ UNCHANGED csv_vars

\* parse_json(json_in) is computed.
ParseJson ==
    /\ pc = "parse"
    /\ result' = parse_json(json_in)
    /\ pc' = "parsed"
    /\ UNCHANGED <<py_data, py_spaces, json_in, tok_at, tok>>
    /\ UNCHANGED csv_vars

\* ------------------------------------------------------------------------
\* Specifications
\* ------------------------------------------------------------------------
\* No call of json_lib.py is under way.
JsonIdle ==
    /\ py_data = PyNone /\ py_spaces = NoSpaces /\ json_in = <<>>
    /\ tok_at = 0 /\ tok = <<>> /\ result = Ok(PyNone, 0)

\* No call of csv_lib.py is under way.
CsvIdle ==
    /\ table = <<>> /\ cell = <<>> /\ cell_out = <<>> /\ csv = <<>>
    /\ quote_char = DQUOTE /\ comma_char = COMMA /\ new_line_char = LF
    /\ ParseCsvEntry

DefaultDelims == <<DQUOTE, COMMA, LF>>
AltDelims == <<Other.squote, Other.semi, Other.pipe>>

\* parse_csv on every text of at most MaxCsvLen characters.
InitCsvParse ==
    /\ \E d \in {DefaultDelims, AltDelims} :
          /\ quote_char = d[1] /\ comma_char = d[2] /\ new_line_char = d[3]
          /\ csv \in SeqsUpTo({Other.a, d[1], d[2], d[3]}, MaxCsvLen)
    /\ table = <<>> /\ cell = <<>> /\ cell_out = <<>>
    /\ ParseCsvEntry
    /\ JsonIdle
    /\ pc = "loop"

NextCsvParse == ParseCsvStep \/ ParseCsvTrailing

SpecCsvParse == InitCsvParse /\ [][NextCsvParse]_vars

\* parse_csv(strs_to_csv(t)) with the default delimiters.
CsvCells(len) == SeqsUpTo({Other.a, DQUOTE, COMMA, LF}, len)
CsvRows(cells, len) == SeqsUpTo(CsvCells(len), cells)
CsvTables(rows, cells, len) == SeqsUpTo(CsvRows(cells, len), rows)

InitCsvRoundTrip ==
    /\ table \in CsvTables(MaxRows, MaxCells, MaxCellLen)
    /\ quote_char = DQUOTE /\ comma_char = COMMA /\ new_line_char = LF
    /\ csv = <<>> /\ cell = <<>> /\ cell_out = <<>>
    /\ ParseCsvEntry
    /\ JsonIdle
    /\ pc = "encode"

NextCsvRoundTrip == StrsToCsv \/ ParseCsvStep \/ ParseCsvTrailing

SpecCsvRoundTrip == InitCsvRoundTrip /\ [][NextCsvRoundTrip]_vars

\* str_to_csv on every cell, under the default and other delimiters.
DelimChoices == {DQUOTE, Other.squote} \X {COMMA, Other.semi} \X {LF, Other.pipe}
CellChars == {Other.a, DQUOTE, Other.squote, COMMA, Other.semi, LF, Other.pipe}

InitCell ==
    /\ cell \in SeqsUpTo(CellChars, MaxCellLen)
    /\ \E d \in DelimChoices :
          quote_char = d[1] /\ comma_char = d[2] /\ new_line_char = d[3]
    /\ table = <<>> /\ csv = <<>> /\ cell_out = <<>>
    /\ ParseCsvEntry
    /\ JsonIdle
    /\ pc = "cell"

NextCell == StrToCsv

SpecCell == InitCell /\ [][NextCell]_vars

\* parse_json on every number token of at most MaxNumLen characters, alone,
\* after whitespace, inside an array and as a later element of an array.
NumAlphabet == {DIGIT_0, Other.one, DOT, LOWER_E, UPPER_E, PLUS, MINUS}
NumTokens(len) ==
    {t \in SeqsUpTo(NumAlphabet, len) : Len(t) > 0 /\ t[1] \in JSON_NUM_START_CHARS}
NumContexts ==
    { << <<>>, <<>> >>,
      << <<SPACE, LF>>, <<>> >>,
      << <<LBRACKET>>, <<RBRACKET>> >>,
      << <<LBRACKET, Other.one, COMMA>>, <<RBRACKET>> >> }

InitJsonNumber ==
    /\ tok \in NumTokens(MaxNumLen)
    /\ \E ctx \in NumContexts :
          /\ json_in = ctx[1] \o tok \o ctx[2]
          /\ tok_at = Len(ctx[1])
    /\ py_data = PyNone /\ py_spaces = NoSpaces /\ result = Ok(PyNone, 0)
    /\ CsvIdle
    /\ pc = "parse"

NextJsonNumber == ParseJson

SpecJsonNumber == InitJsonNumber /\ [][NextJsonNumber]_vars

\* parse_json on every text that opens a string literal, of at most
\* MaxStrBody characters after the opening quote.
StrAlphabet == {DQUOTE, BACKSLASH, LOWER_U, LOWER_N, DIGIT_0, LOWER_A, Other.z, Other.g, LF}

InitJsonString ==
    /\ \E body \in SeqsUpTo(StrAlphabet, MaxStrBody) : json_in = <<DQUOTE>> \o body
    /\ tok = json_in /\ tok_at = 0
    /\ py_data = PyNone /\ py_spaces = NoSpaces /\ result = Ok(PyNone, 0)
    /\ CsvIdle
    /\ pc = "parse"

NextJsonString == ParseJson

SpecJsonString == InitJsonString /\ [][NextJsonString]_vars

\* parse_json on every text made of at most MaxTokens of these tokens.
TextTokens ==
    { <<LBRACE>>, <<RBRACE>>, <<LBRACKET>>, <<RBRACKET>>, <<COLON>>, <<COMMA>>, <<SPACE>>,
      <<DQUOTE, LOWER_A, DQUOTE>>, <<Other.one>>, WORD_NULL }

RECURSIVE Concat(_)
Concat(parts) == IF Len(parts) = 0 THEN <<>> ELSE Head(parts) \o Concat(Tail(parts))

InitJsonText ==
    /\ \E parts \in SeqsUpTo(TextTokens, MaxTokens) : json_in = Concat(parts)
    /\ tok = <<>> /\ tok_at = 0
    /\ py_data = PyNone /\ py_spaces = NoSpaces /\ result = Ok(PyNone, 0)
    /\ CsvIdle
    /\ pc = "parse"

NextJsonText == ParseJson

SpecJsonText == InitJsonText /\ [][NextJsonText]_vars

\* parse_json(to_json(v, py_spaces)) on values of every kind.
StrChars == {LOWER_A, LOWER_U, BACKSLASH, DQUOTE, LF, Other.ctrl, Other.surrogate}
Strings(len) == {PyStr(s) : s \in SeqsUpTo(StrChars, len)}
Numbers ==
    {PyInt(0), PyInt(7), PyInt(-12), PyInt(100),
     PyFloat(0, 0), PyFloat(2, 0), PyFloat(15, -1), PyFloat(-1, -3), PyFloat(1, -5),
     PyFloat(125, -8), PyFloat(1, 16), PyFloat(-25, 20), PyFloat(123456789, 0)}
Atoms(len) == {PyNone, PyBool(TRUE), PyBool(FALSE)} \cup Numbers \cup Strings(len)
SmallAtoms ==
    {PyNone, PyBool(TRUE), PyInt(-12), PyFloat(1, -5),
     PyStr(<<BACKSLASH, DQUOTE>>), PyStr(<<LF, Other.surrogate>>)}
TinyAtoms == {PyBool(FALSE), PyStr(<<LOWER_A, BACKSLASH>>)}
Keys == {<<>>, <<DQUOTE>>, <<BACKSLASH, LOWER_U>>}

DistinctKeys(items) ==
    \A j, k \in 1..Len(items) : j # k => items[j][1] # items[k][1]

Containers(elems, n) ==
    {PyList(l) : l \in SeqsUpTo(elems, n)}
    \cup {PyDict(d) : d \in {x \in SeqsUpTo(Keys \X elems, n) : DistinctKeys(x)}}

\* Atoms, containers of up to n atoms, and containers of up to n - 1
\* containers of one atom.
Values(len, n) ==
    Atoms(len) \cup Containers(SmallAtoms, n)
               \cup Containers(Containers(TinyAtoms, 1), n - 1)

InitJsonRoundTrip ==
    /\ py_data \in Values(MaxStrLen, MaxItems)
    /\ py_spaces \in {NoSpaces, PyInt(2)}
    /\ json_in = <<>> /\ tok = <<>> /\ tok_at = 0 /\ result = Ok(PyNone, 0)
    /\ CsvIdle
    /\ pc = "to_json"

NextJsonRoundTrip == ToJson \/ ParseJson

SpecJsonRoundTrip == InitJsonRoundTrip /\ [][NextJsonRoundTrip]_vars

\* ------------------------------------------------------------------------
\* The CSV grammar, read off the text alone: where a scan of the text stands
\* after each character.  mode is "out" (between cells), "unq" (inside an
\* unquoted cell), "q_open" (inside a quoted cell, closing quote not reached),
\* "q_closed" (the last character is a quote that may close the cell) or
\* "bad"; rows and cells count the completed rows and the completed cells of
\* the current row; start is the index at which the current cell began.
\* ------------------------------------------------------------------------
GrammarStep(st, ch, k, q, c, n) ==
    LET endCell == IF ch = n
                   THEN [mode |-> "out", rows |-> st.rows + 1, cells |-> 0, start |-> st.start]
                   ELSE [mode |-> "out", rows |-> st.rows, cells |-> st.cells + 1, start |-> st.start]
    IN  CASE st.mode = "out" ->
                IF ch = q THEN [st EXCEPT !.mode = "q_open", !.start = k]
                ELSE IF ch = c \/ ch = n THEN [endCell EXCEPT !.start = k]
                ELSE [st EXCEPT !.mode = "unq", !.start = k]
          [] st.mode = "unq" ->
                IF ch = q THEN [st EXCEPT !.mode = "bad"]
                ELSE IF ch = c \/ ch = n THEN endCell
                ELSE st
          [] st.mode = "q_open" ->
                IF ch = q THEN [st EXCEPT !.mode = "q_closed"] ELSE st
          [] st.mode = "q_closed" ->
                IF ch = q THEN [st EXCEPT !.mode = "q_open"]
                ELSE IF ch = c \/ ch = n THEN endCell
                ELSE [st EXCEPT !.mode = "bad"]
          [] OTHER -> st

RECURSIVE GrammarScan(_, _, _, _)
GrammarScan(text, q, c, n) ==
    IF Len(text) = 0
    THEN [mode |-> "out", rows |-> 0, cells |-> 0, start |-> 0]
    ELSE GrammarStep(GrammarScan(SubSeq(text, 1, Len(text) - 1), q, c, n),
                     text[Len(text)], Len(text) - 1, q, c, n)

\* The scan of the text parse_csv has read so far.
Scanned == GrammarScan(Slice(csv, 0, i), quote_char, comma_char, new_line_char)

\* The last cell parse_csv appended.
LastCell ==
    IF Len(current_row) > 0 THEN current_row[Len(current_row)]
    ELSE lines[Len(lines)][Len(lines[Len(lines)])]

\* The wrapped form of a cell: inside quotes q, every q doubled.
Wrapped(s, q) == <<q>> \o StrReplace(s, <<q>>, <<q, q>>) \o <<q>>

\* ------------------------------------------------------------------------
\* Claims
\* ------------------------------------------------------------------------

\* C1: CSV round trip.  parse_csv(strs_to_csv(t)) with the default delimiters
\* ends without an error and returns t, row for row and cell for cell.  Stated
\* on the tables whose rows each hold at least one cell and whose last row is
\* not a lone empty cell (CSV text has no form for the others).
C1_Representable(t) ==
    /\ \A r \in 1..Len(t) : Len(t[r]) > 0
    /\ Len(t) > 0 => t[Len(t)] # << <<>> >>

C1_CsvRoundTrip ==
    (pc \in {"done", "error"} /\ C1_Representable(table))
        => (pc = "done" /\ lines = table)

\* C3: str_to_csv returns the cell wrapped in quoteChar, with every quoteChar
\* in it doubled, if and only if the cell contains quoteChar, fieldSep or
\* rowSep; otherwise it returns the cell unchanged.  For every choice of the
\* three delimiters.
C3_WrapIffSpecial ==
    pc = "cell_done" =>
        cell_out = IF \/ Contains(cell, quote_char)
                      \/ Contains(cell, comma_char)
                      \/ Contains(cell, new_line_char)
                   THEN Wrapped(cell, quote_char)
                   ELSE cell

\* C4: the value of a quoted cell that parse_csv closed is the text between
\* its opening and its closing quote with each doubled quote replaced by one
\* quote.  (Default quote character.)
C4_Raw ==
    IF pc = "done" THEN Slice(csv, cell_start_ind, Len(csv))
    ELSE Slice(csv, cell_start_ind, i - 1)

C4_ClosedQuoted ==
    /\ quote_char = DQUOTE
    /\ \/ pc = "done" /\ cell_is_quoted
       \/ pc = "loop" /\ out_of_cell /\ i > 0 /\ csv[cell_start_ind + 1] = quote_char

C4_QuotedCellContent ==
    C4_ClosedQuoted =>
        LastCell = StrReplace(Slice(C4_Raw, 1, Len(C4_Raw) - 1),
                              <<quote_char, quote_char>>, <<quote_char>>)

\* C9: end of input.  Ending inside a quoted cell whose closing quote has not
\* been reached is a SyntaxError; ending inside an unquoted cell appends that
\* cell with the text since its start; ending on a field separator that
\* closed a cell appends exactly one empty cell; and whenever the call does
\* not fail, a non-empty current row becomes the last row.
C9_EndOfInput ==
    [][(pc = "loop" /\ i = Len(csv)) =>
        LET st == GrammarScan(csv, quote_char, comma_char, new_line_char)
        IN  /\ st.mode = "q_open" =>
                 pc' = "error" /\ err'.kind = "SyntaxError"
            /\ st.mode = "unq" =>
                 /\ pc' = "done"
                 /\ current_row' = Append(current_row, Slice(csv, st.start, Len(csv)))
            /\ (st.mode = "out" /\ EndsWith(csv, <<comma_char>>)) =>
                 /\ pc' = "done"
                 /\ current_row' = Append(current_row, <<>>)
            /\ pc' = "done" =>
                 lines' = IF Len(current_row') > 0
                          THEN Append(lines, current_row') ELSE lines]_vars

\* C9 witness: the input ended right after a doubled quote inside a quoted
\* cell, and the call failed at the end of the input.
C9_Witness ==
    /\ pc = "error"
    /\ err.pos = Len(csv)
    /\ Len(csv) >= 3
    /\ EndsWith(csv, <<quote_char, quote_char>>)
    /\ Len(lines) + Len(current_row) > 0

\* C10: inside a quoted cell, a quote that is not the second half of a doubled
\* quote, followed by a character that is neither the quote nor a separator,
\* is a SyntaxError at the offset of that character, with the row index the
\* number of completed rows and the cell index the number of completed cells
\* of the current row; and a separator met before the closing quote does not
\* end the cell.
C10_QuoteThenOther ==
    [][(pc = "loop" /\ i < Len(csv)) =>
        LET st == Scanned
            c == csv[i + 1]
        IN  /\ (st.mode = "q_closed" /\ c \notin {quote_char, comma_char, new_line_char}) =>
                 /\ pc' = "error"
                 /\ err'.kind = "SyntaxError"
                 /\ err'.pos = i
                 /\ err'.row = st.rows
                 /\ err'.cell = st.cells
            /\ (st.mode = "q_open" /\ c \in {comma_char, new_line_char}) =>
                 /\ pc' = "loop"
                 /\ lines' = lines
                 /\ current_row' = current_row]_vars

\* C10 witness: the error was raised in the second cell of the second row.
C10_Witness ==
    /\ pc = "error"
    /\ err.msg = "Expected comma, new line, or quote following another quote"
    /\ err.row = 1
    /\ err.cell = 1

\* The pieces of s between the occurrences of sep: one more piece than there
\* are separators, so the empty text is one empty piece.
RECURSIVE SplitOn(_, _)
SplitOn(s, sep) ==
    IF Len(s) = 0 THEN << <<>> >>
    ELSE LET rest == SplitOn(Tail(s), sep)
         IN  IF Head(s) = sep
             THEN << <<>> >> \o rest
             ELSE << <<Head(s)>> \o Head(rest) >> \o Tail(rest)

\* The table of a text without quotes: its pieces between row separators, the
\* last one dropped when empty, each split on the field separator.
SplitTable(text, row_sep, field_sep) ==
    LET pieces == SplitOn(text, row_sep)
        n == Len(pieces)
        kept == IF Len(pieces[n]) = 0 THEN n - 1 ELSE n
    IN  [k \in 1..kept |-> SplitOn(pieces[k], field_sep)]

\* C11: on a text that contains no quote character parse_csv never raises, and
\* it returns the text split on the row separator, the last piece dropped when
\* it is empty, with each remaining piece split on the field separator.
C11_SplitOnSeparators ==
    ~Contains(csv, quote_char) =>
        /\ pc # "error"
        /\ pc = "done" => lines = SplitTable(csv, new_line_char, comma_char)

\* C11 witness: an empty line, then a line of two empty cells and a, then a
\* trailing row separator, parsed to two rows.
C11_Witness ==
    /\ pc = "done"
    /\ quote_char = DQUOTE
    /\ csv = <<LF, COMMA, COMMA, Other.a, LF>>
    /\ lines = << << <<>> >>, << <<>>, <<>>, <<Other.a>> >> >>

\* ------------------------------------------------------------------------
\* The JSON grammar, read off the text alone
\* ------------------------------------------------------------------------
\* Deep equality of Python values: numbers by value (an int equals the float
\* of the same value), lists item by item, dicts key by key in the same order.
NumValue(x) == IF x.t = "int" THEN Normalize(x.n, 0) ELSE x

RECURSIVE PyEq(_, _)
PyEq(a, b) ==
    CASE a.t \in {"int", "float"} -> b.t \in {"int", "float"} /\ NumValue(a) = NumValue(b)
      [] a.t = "list" ->
            /\ b.t = "list"
            /\ Len(a.items) = Len(b.items)
            /\ \A k \in 1..Len(a.items) : PyEq(a.items[k], b.items[k])
      [] a.t = "dict" ->
            /\ b.t = "dict"
            /\ Len(a.items) = Len(b.items)
            /\ \A k \in 1..Len(a.items) :
                  /\ a.items[k][1] = b.items[k][1]
                  /\ PyEq(a.items[k][2], b.items[k][2])
      [] OTHER -> a = b

\* The number grammar: optional '-', then '0' or a non-zero digit and digits,
\* then optionally '.' and at least one digit, then optionally 'e' or 'E', an
\* optional sign and at least one digit.  st is the place in the grammar.
RECURSIVE NumGrammar(_, _, _)
NumGrammar(t, k, st) ==
    IF k > Len(t) THEN st \in {"zero", "int", "frac", "exp"}
    ELSE LET c == t[k]
             next ==
                CASE st = "start" /\ c = MINUS -> "minus"
                  [] st \in {"start", "minus"} /\ c = DIGIT_0 -> "zero"
                  [] st \in {"start", "minus"} /\ IsDigit(c) -> "int"
                  [] st = "int" /\ IsDigit(c) -> "int"
                  [] st \in {"zero", "int"} /\ c = DOT -> "dot"
                  [] st \in {"dot", "frac"} /\ IsDigit(c) -> "frac"
                  [] st \in {"zero", "int", "frac"} /\ c \in {LOWER_E, UPPER_E} -> "e"
                  [] st = "e" /\ c \in {PLUS, MINUS} -> "sign"
                  [] st \in {"e", "sign", "exp"} /\ IsDigit(c) -> "exp"
                  [] OTHER -> "no"
         IN  next # "no" /\ NumGrammar(t, k + 1, next)

IsJsonNumber(t) == NumGrammar(t, 1, "start")

\* The first index k (zero-based), from index from on, at which s holds a
\* character of the set bad; Len(s) if there is none.
RECURSIVE FirstIn(_, _, _)
FirstIn(s, bad, from) ==
    IF from >= Len(s) THEN Len(s)
    ELSE IF s[from + 1] \in bad THEN from
    ELSE FirstIn(s, bad, from + 1)

\* The index in a number token of the character each message of
\* parse_json_number is about.
NumFailIndex(t, msg) ==
    LET s == IF Len(t) > 0 /\ t[1] = MINUS THEN 1 ELSE 0
        e_at == FirstIn(t, {LOWER_E, UPPER_E}, s)
        mant == Slice(t, 0, e_at)
        first_dot == FirstIn(mant, {DOT}, s)
        bad_mant == FirstIn(mant, JSON_NUM_CHARS \ ((DIGIT_0..DIGIT_9) \cup {DOT}), s)
        exp_at == IF e_at + 1 < Len(t) /\ t[e_at + 2] \in {PLUS, MINUS}
                  THEN e_at + 2 ELSE e_at + 1
        bad_exp == FirstIn(t, JSON_NUM_CHARS \ (DIGIT_0..DIGIT_9), exp_at)
    IN  CASE msg = "Unexpected decimal point. Expected a digit beforehand" -> s
          [] msg = "Unexpected digit following a zero" -> s + 1
          [] msg = "Unexpected decimal point. Expected no decimal point or a following digit" ->
                e_at - 1
          [] msg = "Unexpected end of non-exponent segment of number" -> s
          [] msg = "Unexpected second decimal point" -> FirstIn(mant, {DOT}, first_dot + 1)
          [] msg = "Unexpected character. Expected a digit" ->
                IF bad_mant < Len(mant) THEN bad_mant ELSE bad_exp
          [] msg = "Unexpected end of number. Expected a digit" -> Len(t)
          [] OTHER -> -1

NumErrors ==
    {"Unexpected decimal point. Expected a digit beforehand",
     "Unexpected digit following a zero",
     "Unexpected decimal point. Expected no decimal point or a following digit",
     "Unexpected end of non-exponent segment of number",
     "Unexpected second decimal point",
     "Unexpected character. Expected a digit",
     "Unexpected end of number. Expected a digit"}

\* The index of the first character of a string literal (opened at index 0)
\* that the string grammar does not allow where it stands: an unknown escape
\* letter, a non-hexadecimal character within the four after \u, or a raw
\* control character; -1 if there is none before the closing quote or the
\* end of the text.  left counts the hexadecimal characters still due.
RECURSIVE StrOffender(_, _, _, _)
StrOffender(t, k, mode, left) ==
    IF k >= Len(t) THEN -1
    ELSE LET c == t[k + 1]
         IN  CASE mode = "plain" ->
                    IF c = DQUOTE THEN -1
                    ELSE IF c = BACKSLASH THEN StrOffender(t, k + 1, "esc", 0)
                    ELSE IF c < SPACE THEN k
                    ELSE StrOffender(t, k + 1, "plain", 0)
               [] mode = "esc" ->
                    IF c = LOWER_U THEN StrOffender(t, k + 1, "hex", 4)
                    ELSE IF c \in EscapeLetters THEN StrOffender(t, k + 1, "plain", 0)
                    ELSE k
               [] OTHER ->
                    IF IsDigit(c) \/ (Lower(c) >= LOWER_A /\ Lower(c) <= LOWER_F)
                    THEN StrOffender(t, k + 1, IF left = 1 THEN "plain" ELSE "hex", left - 1)
                    ELSE k

StrErrors ==
    {"Unexpected character. Expected a hexadecimal character",
     "Unexpected character. Expected an escape letter",
     "Unexpected character. Expected a character in the string ranges"}

\* ------------------------------------------------------------------------
\* Claims about json_lib.py
\* ------------------------------------------------------------------------

\* C2: JSON round trip.  For every value v of the supported kinds, to_json(v,
\* spaces=None) does not raise and parse_json of its text returns a value
\* deep-equal to v, integral numbers compared by value, dict keys in order.
C2_JsonRoundTrip ==
    /\ pc # "raised"
    /\ (pc = "parsed" /\ py_spaces = NoSpaces) =>
          result.exc = "none" /\ PyEq(result.val, py_data)

\* C2 witness: a dict whose key and values hold a quote, a backslash and a
\* number written with an exponent has gone through to_json and parse_json.
C2_Witness ==
    /\ pc = "parsed"
    /\ py_spaces = NoSpaces
    /\ py_data = PyDict(<< <<(<<DQUOTE>>), PyStr(<<BACKSLASH, DQUOTE>>)>>,
                           <<(<<BACKSLASH, LOWER_U>>), PyFloat(1, -5)>> >>)
    /\ json_in = <<LBRACE, DQUOTE, BACKSLASH, DQUOTE, DQUOTE, COLON,
                   DQUOTE, BACKSLASH, BACKSLASH, BACKSLASH, DQUOTE, DQUOTE, COMMA,
                   DQUOTE, BACKSLASH, BACKSLASH, LOWER_U, DQUOTE, COLON,
                   Other.one, LOWER_E, MINUS, DIGIT_0, 53, RBRACE>>
    /\ result.exc = "none"

\* C5: parse_json returns a value or raises a SyntaxError, nothing else; an
\* object whose key is followed by a character other than ':' is rejected
\* with a SyntaxError, the first key like the later ones.
C5_KeyThenOther ==
    /\ StartsWithAt(json_in, <<LBRACE, DQUOTE, LOWER_A, DQUOTE>>, 0)
    /\ Len(json_in) > 4
    /\ json_in[5] \notin {COLON, SPACE}

C5_OnlySyntaxErrors ==
    pc = "parsed" =>
        /\ result.exc \in {"none", "SyntaxError"}
        /\ C5_KeyThenOther => result.exc = "SyntaxError"

\* C6: when parse_json rejects a string literal for an unknown escape letter,
\* a non-hexadecimal character in a \uXXXX escape or a raw control character,
\* the offset of the SyntaxError is the index of that character.
C6_StringErrorOffset ==
    (pc = "parsed" /\ result.exc = "SyntaxError" /\ result.msg \in StrErrors) =>
        result.pos = StrOffender(json_in, 1, "plain", 0)

\* C7: when parse_json_number rejects a number token, the offset of the
\* SyntaxError is the index in the input text of the character at which the
\* validation fails, wherever the token starts.
C7_NumberErrorOffset ==
    (pc = "parsed" /\ result.exc = "SyntaxError" /\ result.msg \in NumErrors) =>
        result.pos = tok_at + NumFailIndex(tok, result.msg)

\* C8: a maximal token of number characters that starts at a digit or '-' is
\* accepted if and only if it has the form of the number grammar; every other
\* token is rejected with a SyntaxError.
C8_NumberGrammar ==
    pc = "parsed" =>
        IF IsJsonNumber(tok) THEN result.exc = "none" ELSE result.exc = "SyntaxError"

\* C8 witness: the token 1E+0 was accepted as the second element of an array.
C8_Witness ==
    /\ pc = "parsed"
    /\ tok = <<Other.one, UPPER_E, PLUS, DIGIT_0>>
    /\ tok_at = 3
    /\ result.exc = "none"
    /\ result.val = PyList(<<PyFloat(1, 0), PyFloat(1, 0)>>)

Spec == SpecCsvParse
====
